---- MODULE Spec2Model ----
(***************************************************************************)
(* Model of run.py: a single-shot batch job that validates a YAML          *)
(* configuration, loads a CSV, computes a rolling-mean signal and writes   *)
(* one JSON report.                                                        *)
(*                                                                         *)
(* Representation choices                                                  *)
(*  - a parsed YAML value is a record tagged with its Python type:         *)
(*    [kind |-> "int", n |-> 42], [kind |-> "bool", b |-> TRUE],           *)
(*    [kind |-> "float"], [kind |-> "str", s |-> "v1"], [kind |-> "null"], *)
(*    [kind |-> "seq"]; [kind |-> "absent"] marks a key the mapping lacks; *)
(*  - a CSV cell of the single data column is <<v>> for the number v and   *)
(*    <<>> for a missing value (NaN after pd.read_csv);                    *)
(*  - close values are small integers, so that every rolling sum is exact  *)
(*    in double precision and  close > sum / window  is decided by         *)
(*    close * window > sum;                                                *)
(*  - a rate is kept as the integer number of ten-thousandths that         *)
(*    round(rate, 4) yields (3333 stands for 0.3333);                      *)
(*  - an exception is [type, msg, detail]; text the libraries or the       *)
(*    command line put into a message is abbreviated "<exc>" / "<path>".   *)
(***************************************************************************)
EXTENDS Integers, Sequences, FiniteSets, TLC

VARIABLES
    pc,                 \* position in main
    argv,               \* how the command line parses: "unparsed" until parse_args ran
    cfgFile,            \* <<f>>: the file at --config as load_config found it
    dataFile,           \* <<f>>: the file at --input as load_data found it
    config,             \* <<c>>: the dict load_config returned
    version_for_error,  \* main's local of that name; <<>> before line 107
    seeded,             \* number of np.random.seed calls that took effect
    df,                 \* <<t>>: the frame load_data returned
    signal,             \* <<s>>: the series generate_signals returned
    exc,                \* <<e>>: the exception on its way to the except clause
    log,                \* records handed to the file logger, in order
    calls,              \* history: the stage functions called so far, in order
    reports,            \* history: the report dicts built (metrics, error_payload)
    writes,             \* history: the write_json calls on --output
    output,             \* <<p>>: content of the file at --output
    exit                \* <<n>>: exit status of the process

vars == <<pc, argv, cfgFile, dataFile, config, version_for_error, seeded,
          df, signal, exc, log, calls, reports, writes, output, exit>>

(***************************************************************************)
(* Bounds of the model.                                                    *)
(***************************************************************************)
MaxRows == 3

MaxWindow == 3

MaxLatency == 1

(***************************************************************************)
(* Python values and exceptions.                                           *)
(***************************************************************************)
PyInt(n) == [kind |-> "int", n |-> n]

PyBool(b) == [kind |-> "bool", b |-> b]

PyStr(s) == [kind |-> "str", s |-> s]

PyFloat == [kind |-> "float"]

PyNone == [kind |-> "null"]

PyList == [kind |-> "seq"]

Absent == [kind |-> "absent"]

\* isinstance(v, int): bool is a subclass of int in Python.
isinstance_int(v) == v.kind \in {"int", "bool"}

isinstance_str(v) == v.kind = "str"

\* The integer a Python int (or bool: True == 1, False == 0) compares as.
int_value(v) == IF v.kind = "bool" THEN (IF v.b THEN 1 ELSE 0) ELSE v.n

Raise(type, msg) == [ok |-> FALSE, exc |-> [type |-> type, msg |-> msg, detail |-> <<>>]]

RaiseWith(type, msg, detail) ==
    [ok |-> FALSE, exc |-> [type |-> type, msg |-> msg, detail |-> detail]]

Return(v) == [ok |-> TRUE, value |-> v]

\* str(exc): the message, followed by the formatted detail when there is one.
str_exc(e) == <<e.msg>> \o e.detail

(***************************************************************************)
(* load_config                                                             *)
(***************************************************************************)
required_keys == {"seed", "window", "version"}

\* set(cfg.keys()) of a parsed mapping
cfg_keys(doc) == {k \in required_keys : doc[k].kind # "absent"}

\* sorted(missing): the lexicographic order of the three key names
sorted_keys(missing) ==
    (IF "seed" \in missing THEN <<"seed">> ELSE <<>>)
    \o (IF "version" \in missing THEN <<"version">> ELSE <<>>)
    \o (IF "window" \in missing THEN <<"window">> ELSE <<>>)

load_config(f) ==
    IF ~f.exists
    THEN Raise("FileNotFoundError", "Config file not found: <path>")
    ELSE IF f.kind = "invalid_yaml"
    THEN Raise("ValueError", "Invalid YAML config format: <exc>")
    ELSE IF f.kind # "mapping"
    THEN Raise("ValueError", "Invalid configuration file structure: expected a YAML mapping.")
    ELSE IF required_keys \ cfg_keys(f.doc) # {}
    THEN RaiseWith("ValueError", "Invalid configuration file structure: missing keys",
                   sorted_keys(required_keys \ cfg_keys(f.doc)))
    ELSE IF ~isinstance_int(f.doc.seed)
    THEN Raise("ValueError",
               "Invalid configuration file structure: 'seed' must be an integer.")
    ELSE IF ~isinstance_int(f.doc.window) \/ int_value(f.doc.window) <= 0
    THEN Raise("ValueError",
               "Invalid configuration file structure: 'window' must be a positive integer.")
    ELSE IF ~isinstance_str(f.doc.version) \/ f.doc.version.s = ""
    THEN Raise("ValueError",
               "Invalid configuration file structure: 'version' must be a non-empty string.")
    ELSE Return([seed |-> f.doc.seed, window |-> f.doc.window, version |-> f.doc.version.s])

(***************************************************************************)
(* load_data                                                               *)
(***************************************************************************)
\* df.empty: an axis of length 0
df_empty(t) == Len(t.rows) = 0 \/ t.columns = {}

load_data_generic_first(f) ==
    IF ~f.exists
    THEN Raise("FileNotFoundError", "Input file not found: <path>")
    ELSE IF f.kind \in {"zero_byte", "malformed", "undecodable"}
    THEN Raise("ValueError", "Invalid CSV file format: <exc>")
    ELSE IF df_empty(f.table)
    THEN Raise("ValueError", "Empty input file.")
    ELSE IF "close" \notin f.table.columns
    THEN Raise("ValueError", "Missing required columns in dataset: ['close']")
    ELSE Return(f.table)

\* pd.read_csv raises EmptyDataError on a file without columns (zero bytes),
\* ParserError on malformed rows, and other exceptions (UnicodeDecodeError)
\* on bytes it cannot decode.
load_data(f) ==
    IF ~f.exists
    THEN Raise("FileNotFoundError", "Input file not found: <path>")
    ELSE IF f.kind = "zero_byte"
    THEN Raise("ValueError", "Empty input file.")
    ELSE IF f.kind = "malformed"
    THEN Raise("ValueError", "Invalid CSV file format: <exc>")
    ELSE IF f.kind = "undecodable"
    THEN Raise("ValueError", "Invalid CSV file format: <exc>")
    ELSE IF df_empty(f.table)
    THEN Raise("ValueError", "Empty input file.")
    ELSE IF "close" \notin f.table.columns
    THEN Raise("ValueError", "Missing required columns in dataset: ['close']")
    ELSE Return(f.table)

(***************************************************************************)
(* generate_signals                                                        *)
(***************************************************************************)
RECURSIVE Sum(_)
Sum(s) == IF s = <<>> THEN 0 ELSE Head(s) + Sum(Tail(s))

\* The rolling mean with min_periods=1: the mean of the observations the
\* window holds, however few.
rolling_mean_min_periods_1(close, w, i) ==
    LET lo == IF i >= w THEN i - w + 1 ELSE 1
        seen == {j \in lo..i : close[j] # <<>>}
    IN  IF seen = {} THEN <<>>
        ELSE <<Sum([k \in 1..(i - lo + 1) |->
                      IF close[lo + k - 1] = <<>> THEN 0 ELSE close[lo + k - 1][1]]),
               Cardinality(seen)>>

\* close.rolling(window=w, min_periods=w).mean() at position i (1-based):
\* <<sum, w>> stands for the mean sum / w, <<>> for NaN (fewer than w
\* observations, or a missing value among them).
rolling_mean(close, w, i) ==
    IF i >= w /\ \A j \in (i - w + 1)..i : close[j] # <<>>
    THEN <<Sum([k \in 1..w |-> close[i - w + k][1]]), w>>
    ELSE <<>>

\* close[i] > rolling_mean[i]: a comparison with NaN on either side is False.
greater(cell, mean) == cell # <<>> /\ mean # <<>> /\ cell[1] * mean[2] > mean[1]

\* pandas refuses a bool as window / min_periods (ValueError) and has no
\* rolling mean of an object (text) column (DataError).
generate_signals(t, window) ==
    IF window.kind = "bool"
    THEN Raise("ValueError", "min_periods must be an integer")
    ELSE IF t.dtype = "object"
    THEN Raise("DataError", "No numeric types to aggregate")
    ELSE Return([i \in 1..Len(t.rows) |->
                   IF greater(t.rows[i], rolling_mean(t.rows, window.n, i))
                   THEN 1 ELSE 0])

(***************************************************************************)
(* The reports                                                             *)
(***************************************************************************)
round_down(k, n) == (10000 * k) \div n

\* round(k / n, 4) in ten-thousandths: Python rounds to the nearest, a tie
\* to even.
round(k, n) ==
    LET q == (10000 * k) \div n
        r == (10000 * k) % n
    IN  IF 2 * r < n THEN q
        ELSE IF 2 * r > n THEN q + 1
        ELSE IF q % 2 = 0 THEN q ELSE q + 1

\* signal.mean() as the pair <<sum, count>>: every position of the series
\* is an integer, so all of them are counted.
signal_mean(s) == <<Sum(s), Len(s)>>

metrics(c, t, s, latency_ms) ==
    [version |-> c.version,
     rows_processed |-> Len(t.rows),
     metric |-> "signal_rate",
     value |-> round(signal_mean(s)[1], signal_mean(s)[2]),
     latency_ms |-> latency_ms,
     seed |-> c.seed,
     status |-> "success"]

error_payload_fixed_version(version, e) ==
    [version |-> "v1", status |-> "error", error_message |-> str_exc(e)]

error_payload(version, e) ==
    [version |-> version, status |-> "error", error_message |-> str_exc(e)]

\* np.random.seed(seed) accepts 0 .. 2**32 - 1 and raises ValueError on any
\* other integer; every seed of SeedValues lies below 2**32.
seed_accepted(seed) == 0 <= int_value(seed)

Info(msg) == [level |-> "INFO", msg |-> msg]

Error(msg) == [level |-> "ERROR", msg |-> msg]

(***************************************************************************)
(* The inputs a run can meet.                                              *)
(***************************************************************************)
SeedValues ==
    {PyInt(42), PyInt(-1), PyBool(TRUE), PyFloat, PyStr("42"), PyNone, PyList, Absent}

WindowValues ==
    {PyInt(n) : n \in (-1)..MaxWindow}
    \cup {PyBool(TRUE), PyBool(FALSE), PyFloat, PyStr("3"), PyNone, PyList, Absent}

VersionValues ==
    {PyStr("v1"), PyStr("v2"), PyStr(""), PyInt(1), PyBool(TRUE), PyFloat, PyNone,
     PyList, Absent}

ConfigFiles ==
    {[exists |-> FALSE]}
    \cup {[exists |-> TRUE, kind |-> k] : k \in {"invalid_yaml", "null", "seq", "str"}}
    \cup {[exists |-> TRUE, kind |-> "mapping",
           doc |-> [seed |-> s, window |-> w, version |-> v]] :
            s \in SeedValues, w \in WindowValues, v \in VersionValues}

Cells == {<<>>, <<1>>, <<2>>, <<10>>}

RECURSIVE SeqsUpTo(_, _)
SeqsUpTo(S, n) ==
    IF n = 0 THEN {<<>>}
    ELSE LET shorter == SeqsUpTo(S, n - 1)
         IN  shorter \cup {Append(q, x) : q \in {t \in shorter : Len(t) = n - 1}, x \in S}

ScenarioClose == <<<<1>>, <<2>>, <<3>>, <<10>>, <<1>>, <<1>>>>

ScenarioConfig == [seed |-> PyInt(42), window |-> PyInt(3), version |-> "v1"]

\* A table is its header and the cells of its one data column.
Tables ==
    {[columns |-> {"close"}, dtype |-> "numeric", rows |-> r] :
        r \in SeqsUpTo(Cells, MaxRows) \cup {ScenarioClose}}
    \cup {[columns |-> {"close"}, dtype |-> "object", rows |-> r] :
            r \in SeqsUpTo({<<1>>}, MaxRows)}
    \cup {[columns |-> {"price"}, dtype |-> "numeric", rows |-> r] :
            r \in SeqsUpTo({<<1>>}, MaxRows)}

DataFiles ==
    {[exists |-> FALSE]}
    \cup {[exists |-> TRUE, kind |-> k] : k \in {"zero_byte", "malformed", "undecodable"}}
    \cup {[exists |-> TRUE, kind |-> "table", table |-> t] : t \in Tables}

(***************************************************************************)
(* main                                                                    *)
(***************************************************************************)
Init ==
    /\ pc = "parse_args"
    /\ argv = "unparsed"
    /\ cfgFile = <<>>
    /\ dataFile = <<>>
    /\ config = <<>>
    /\ version_for_error = <<>>
    /\ seeded = 0
    /\ df = <<>>
    /\ signal = <<>>
    /\ exc = <<>>
    /\ log = <<>>
    /\ calls = <<>>
    /\ reports = <<>>
    /\ writes = <<>>
    /\ output \in {<<>>, <<[status |-> "prior content"]>>}
    /\ exit = <<>>

\* write_json(args.output, payload): open(path, "w") either fails, leaving
\* the file as it was, or the payload replaces the content.
write_json(payload, ok) ==
    /\ writes' = Append(writes, [payload |-> payload, ok |-> ok])
    /\ output' = IF ok THEN <<payload>> ELSE output

\* parser.parse_args(): a command line with the four flags parses; argparse
\* ends the process with status 2 on a usage error and 0 after --help.
parse_args ==
    /\ pc = "parse_args"
    /\ \E a \in {"ok", "usage_error", "help"} :
        /\ argv' = a
        /\ pc' = IF a = "ok" THEN "setup_logger" ELSE "exit"
        /\ exit' = IF a = "ok" THEN exit ELSE IF a = "help" THEN <<0>> ELSE <<2>>
    /\ UNCHANGED <<cfgFile, dataFile, config, version_for_error, seeded, df, signal,
                   exc, log, calls, reports, writes, output>>

\* Lines 105-107. logging.FileHandler opens the log file; a failure is
\* raised outside the try block and ends the interpreter with status 1.
setup_logger ==
    /\ pc = "setup_logger"
    /\ \E opened \in BOOLEAN :
        IF opened
        THEN /\ version_for_error' = <<"v1">>
             /\ pc' = "load_config"
             /\ exit' = exit
        ELSE /\ version_for_error' = version_for_error
             /\ pc' = "exit"
             /\ exit' = <<1>>
    /\ UNCHANGED <<argv, cfgFile, dataFile, config, seeded, df, signal, exc, log,
                   calls, reports, writes, output>>

\* Lines 110-116.
main_load_config ==
    /\ pc = "load_config"
    /\ \E f \in ConfigFiles :
        LET r == load_config(f)
        IN  /\ cfgFile' = <<f>>
            /\ IF r.ok
               THEN /\ config' = <<r.value>>
                    /\ version_for_error' = <<r.value.version>>
                    /\ exc' = exc
                    /\ pc' = "seed"
               ELSE /\ config' = config
                    /\ version_for_error' = version_for_error
                    /\ exc' = <<r.exc>>
                    /\ pc' = "except"
    /\ log' = Append(log, Info("Job started"))
    /\ calls' = Append(calls, "load_config")
    /\ UNCHANGED <<argv, dataFile, seeded, df, signal, reports, writes, output, exit>>

main_seed_skipped ==
    /\ pc = "seed"
    /\ log' = log \o <<Info("Config loaded"), Info("Configuration verified")>>
    /\ pc' = "load_data"
    /\ UNCHANGED <<argv, cfgFile, dataFile, config, version_for_error, seeded, df,
                   signal, exc, calls, reports, writes, output, exit>>

\* Lines 118-120.
main_seed ==
    /\ pc = "seed"
    /\ calls' = Append(calls, "np.random.seed")
    /\ IF seed_accepted(config[1].seed)
       THEN /\ seeded' = seeded + 1
            /\ log' = log \o <<Info("Config loaded"), Info("Configuration verified")>>
            /\ exc' = exc
            /\ pc' = "load_data"
       ELSE /\ seeded' = seeded
            /\ log' = log
            /\ exc' = <<[type |-> "ValueError", msg |-> "Seed must be between 0 and 2**32 - 1",
                         detail |-> <<>>]>>
            /\ pc' = "except"
    /\ UNCHANGED <<argv, cfgFile, dataFile, config, version_for_error, df, signal,
                   reports, writes, output, exit>>

\* Lines 122-124.
main_load_data ==
    /\ pc = "load_data"
    /\ \E f \in DataFiles :
        LET r == load_data(f)
        IN  /\ dataFile' = <<f>>
            /\ IF r.ok
               THEN /\ df' = <<r.value>>
                    /\ log' = Append(log, Info("Data loaded"))
                    /\ exc' = exc
                    /\ pc' = "generate_signals"
               ELSE /\ df' = df
                    /\ log' = log
                    /\ exc' = <<r.exc>>
                    /\ pc' = "except"
    /\ calls' = Append(calls, "load_data")
    /\ UNCHANGED <<argv, cfgFile, config, version_for_error, seeded, signal, reports,
                   writes, output, exit>>

\* Lines 126-128.
main_generate_signals ==
    /\ pc = "generate_signals"
    /\ LET r == generate_signals(df[1], config[1].window)
       IN  IF r.ok
           THEN /\ signal' = <<r.value>>
                /\ log' = log \o <<Info("Rolling mean calculated"), Info("Signals generated")>>
                /\ exc' = exc
                /\ pc' = "report"
           ELSE /\ signal' = signal
                /\ log' = log
                /\ exc' = <<r.exc>>
                /\ pc' = "except"
    /\ calls' = Append(calls, "generate_signals")
    /\ UNCHANGED <<argv, cfgFile, dataFile, config, version_for_error, seeded, df,
                   reports, writes, output, exit>>

\* The success path with a failed write swallowed.
main_report_ignoring_write_failure ==
    /\ pc = "report"
    /\ \E latency_ms \in 0..MaxLatency, ok \in BOOLEAN :
        LET m == metrics(config[1], df[1], signal[1], latency_ms)
        IN  /\ reports' = Append(reports, m)
            /\ write_json(m, ok)
            /\ log' = log \o <<Info("Metrics"), Info("Job completed successfully")>>
    /\ pc' = "exit"
    /\ exit' = <<0>>
    /\ UNCHANGED <<argv, cfgFile, dataFile, config, version_for_error, seeded, df,
                   signal, exc, calls>>

\* Lines 130-147: the success report.
main_report ==
    /\ pc = "report"
    /\ \E latency_ms \in 0..MaxLatency, ok \in BOOLEAN :
        LET m == metrics(config[1], df[1], signal[1], latency_ms)
        IN  /\ reports' = Append(reports, m)
            /\ write_json(m, ok)
            /\ IF ok
               THEN /\ log' = log \o <<Info("Metrics"), Info("Job completed successfully")>>
                    /\ exc' = exc
                    /\ pc' = "exit"
                    /\ exit' = <<0>>
               ELSE /\ log' = log
                    /\ exc' = <<[type |-> "OSError", msg |-> "<exc>", detail |-> <<>>]>>
                    /\ pc' = "except"
                    /\ exit' = exit
    /\ UNCHANGED <<argv, cfgFile, dataFile, config, version_for_error, seeded, df,
                   signal, calls>>

main_except_unwritten ==
    /\ pc = "except"
    /\ reports' = Append(reports, error_payload(version_for_error[1], exc[1]))
    /\ log' = Append(log, Error("Error encountered"))
    /\ pc' = "exit"
    /\ exit' = <<1>>
    /\ UNCHANGED <<argv, cfgFile, dataFile, config, version_for_error, seeded, df,
                   signal, exc, calls, writes, output>>

\* Lines 149-161: the failure report.
main_except ==
    /\ pc = "except"
    /\ \E ok \in BOOLEAN :
        LET p == error_payload(version_for_error[1], exc[1])
        IN  /\ reports' = Append(reports, p)
            /\ write_json(p, ok)
            /\ log' = log \o <<Error("Error encountered")>>
                          \o (IF ok THEN <<>>
                              ELSE <<Error("Failed to write error output JSON")>>)
    /\ pc' = "exit"
    /\ exit' = <<1>>
    /\ UNCHANGED <<argv, cfgFile, dataFile, config, version_for_error, seeded, df,
                   signal, exc, calls>>

Next ==
    \/ parse_args
    \/ setup_logger
    \/ main_load_config
    \/ main_seed
    \/ main_load_data
    \/ main_generate_signals
    \/ main_report
    \/ main_except

Spec == Init /\ [][Next]_vars

(***************************************************************************)
(* Properties                                                              *)
(***************************************************************************)
Finished == pc = "exit"

\* The try block of main was entered.
JobStarted == calls # <<>>

SuccessWritten ==
    /\ writes # <<>>
    /\ writes[1].ok
    /\ writes[1].payload.status = "success"

AllStagesSucceeded ==
    /\ config # <<>>
    /\ df # <<>>
    /\ signal # <<>>
    /\ SuccessWritten

ExitStatusRule ==
    /\ exit \in {<<0>>, <<1>>}
    /\ exit = <<0>> <=> AllStagesSucceeded

\* C1, as stated: every finished run has exit status 0 or 1, and 0 exactly
\* when config validation, data loading, signal computation and the write of
\* the success report all succeeded.
C1_ExitStatusOfEveryRun == Finished => ExitStatusRule

\* C1, amended: every finished run whose command line parsed has exit status
\* 0 or 1, and 0 exactly when all four stages succeeded; a failed write of
\* the failure report leaves the status at 1.
C1_ExitStatusOfParsedRun == (Finished /\ argv = "ok") => ExitStatusRule

\* C1 witness: the success report could not be written, the failure report
\* could not be written either, and the run ended.
C1_Witness ==
    /\ Finished
    /\ Len(writes) = 2
    /\ ~writes[1].ok
    /\ ~writes[2].ok
    /\ exit = <<1>>

\* C2, as stated: a run that entered the job has created exactly one report
\* and called write_json on the output path exactly once when it ends.
C2_OneReportOneWrite ==
    (Finished /\ JobStarted) => (Len(reports) = 1 /\ Len(writes) = 1)

\* C2, amended: every report built is handed to one write_json call, in
\* order; a run that entered the job ends with one report and one call,
\* except that a failed write of the success report is followed by a second
\* report, the failure report, and a second call.
C2_ReportsAndWrites ==
    /\ Len(writes) <= Len(reports)
    /\ \A i \in 1..Len(writes) : writes[i].payload = reports[i]
    /\ (Finished /\ JobStarted) =>
        /\ Len(writes) = Len(reports)
        /\ IF reports[1].status = "success" /\ ~writes[1].ok
           THEN Len(reports) = 2 /\ reports[2].status = "error"
           ELSE Len(reports) = 1

\* C2 witness: a finished run with two write_json calls.
C2_Witness == Finished /\ Len(writes) = 2 /\ Len(reports) = 2

\* The success report of the run, once it is built.
HasSuccessReport == reports # <<>> /\ reports[1].status = "success"

\* The run has ended in success: its report is reports[1].
SuccessfulRun == Finished /\ exit = <<0>> /\ HasSuccessReport

\* The positions (1-based) the claim calls defined: those from the window-th
\* on whose close is present.
DefinedPositions(close, w) == {i \in 1..Len(close) : i >= w /\ close[i] # <<>>}

\* C3, as stated: the reported value is the fraction of 1s among the defined
\* positions only; the first window - 1 rows and the rows without a close
\* are counted neither in the numerator nor in the denominator.
C3_ValueOverDefinedPositions ==
    SuccessfulRun =>
        LET D == DefinedPositions(df[1].rows, config[1].window.n)
        IN  D # {} =>
              reports[1].value = round(Cardinality({i \in D : signal[1][i] = 1}),
                                       Cardinality(D))

\* The configuration and the data of the worked scenario were loaded.
ScenarioRun ==
    /\ config = <<ScenarioConfig>>
    /\ df # <<>>
    /\ df[1].dtype = "numeric"
    /\ df[1].rows = ScenarioClose

ValidConfigFile(f) ==
    /\ f.exists
    /\ f.kind = "mapping"
    /\ f.doc.seed.kind = "int"
    /\ f.doc.window.kind = "int"
    /\ f.doc.window.n > 0
    /\ f.doc.version.kind = "str"
    /\ f.doc.version.s # ""

\* C5, as stated: once load_config has run, a configuration was returned
\* exactly when the file is a valid RunConfig, whatever kind of value each
\* field holds; a rejected file returns nothing.
C5_AcceptsExactlyValid ==
    cfgFile # <<>> =>
        /\ config # <<>> <=> ValidConfigFile(cfgFile[1])
        /\ config = <<>> => exc # <<>> /\ version_for_error = <<"v1">>

\* The validation rules in their fixed order, each as the specification
\* states it: 1 existence, 2 parseability, 3 top-level mapping, 4 missing
\* keys, 5 seed, 6 window, 7 version.
RuleViolated(k, f) ==
    CASE k = 1 -> ~f.exists
      [] k = 2 -> f.exists /\ f.kind = "invalid_yaml"
      [] k = 3 -> f.exists /\ f.kind \notin {"invalid_yaml", "mapping"}
      [] k = 4 -> f.exists /\ f.kind = "mapping" /\ cfg_keys(f.doc) # required_keys
      [] k = 5 -> f.exists /\ f.kind = "mapping"
                    /\ f.doc.seed.kind \notin {"absent", "int"}
      [] k = 6 -> f.exists /\ f.kind = "mapping" /\ f.doc.window.kind # "absent"
                    /\ ~(f.doc.window.kind = "int" /\ f.doc.window.n > 0)
      [] k = 7 -> f.exists /\ f.kind = "mapping" /\ f.doc.version.kind # "absent"
                    /\ ~(f.doc.version.kind = "str" /\ f.doc.version.s # "")

RuleMessage(k) ==
    CASE k = 1 -> "Config file not found: <path>"
      [] k = 2 -> "Invalid YAML config format: <exc>"
      [] k = 3 -> "Invalid configuration file structure: expected a YAML mapping."
      [] k = 4 -> "Invalid configuration file structure: missing keys"
      [] k = 5 -> "Invalid configuration file structure: 'seed' must be an integer."
      [] k = 6 -> "Invalid configuration file structure: 'window' must be a positive integer."
      [] k = 7 -> "Invalid configuration file structure: 'version' must be a non-empty string."

ViolatedRules(f) == {k \in 1..7 : RuleViolated(k, f)}

FirstViolated(f) == CHOOSE k \in ViolatedRules(f) : \A j \in ViolatedRules(f) : k <= j

\* C6, as stated: a configuration that violates one or more rules makes
\* load_config raise the error of the first violated rule in the fixed order.
C6_FirstViolatedRuleWins ==
    (cfgFile # <<>> /\ ViolatedRules(cfgFile[1]) # {}) =>
        /\ config = <<>>
        /\ exc # <<>>
        /\ exc[1].msg = RuleMessage(FirstViolated(cfgFile[1]))

\* The conditions load_data reports, in the order of the claim: 1 file
\* missing, 2 content unparseable, 3 no data (a zero-byte file, or a header
\* with no rows), 4 close column absent.
DataCondition(k, f) ==
    CASE k = 1 -> ~f.exists
      [] k = 2 -> f.exists /\ f.kind \in {"malformed", "undecodable"}
      [] k = 3 -> f.exists /\ (f.kind = "zero_byte"
                               \/ (f.kind = "table" /\ Len(f.table.rows) = 0))
      [] k = 4 -> f.exists /\ f.kind = "table" /\ "close" \notin f.table.columns

DataMessage(k) ==
    CASE k = 1 -> "Input file not found: <path>"
      [] k = 2 -> "Invalid CSV file format: <exc>"
      [] k = 3 -> "Empty input file."
      [] k = 4 -> "Missing required columns in dataset: ['close']"

DataConditions(f) == {k \in 1..4 : DataCondition(k, f)}

FirstDataCondition(f) ==
    CHOOSE k \in DataConditions(f) : \A j \in DataConditions(f) : k <= j

\* C7: once load_data has run, it returned a frame exactly when none of the
\* four conditions holds; otherwise it raised the message of the first one
\* that holds, so an input without data is reported as "Empty input file."
\* (never as a parse failure), also when the close column is absent too.
C7_DataErrorPrecedence ==
    dataFile # <<>> =>
        IF DataConditions(dataFile[1]) = {}
        THEN df = <<dataFile[1].table>>
        ELSE /\ df = <<>>
             /\ exc # <<>>
             /\ exc[1].msg = DataMessage(FirstDataCondition(dataFile[1]))
             /\ (DataCondition(3, dataFile[1]) => exc[1].msg = "Empty input file.")

\* C7 witness: a header without data rows and without a close column was
\* read and reported as empty.
C7_Witness ==
    /\ dataFile # <<>>
    /\ DataConditions(dataFile[1]) = {3, 4}
    /\ exc # <<>>
    /\ exc[1].msg = "Empty input file."

FailureReports == {i \in 1..Len(reports) : reports[i].status = "error"}

\* C8, as stated: a failure report holds only version, status and
\* error_message; version is the configuration's when load_config had
\* succeeded, and is "v1" exactly when it had not.
C8_FailureVersionExactly ==
    \A i \in FailureReports :
        /\ DOMAIN reports[i] = {"version", "status", "error_message"}
        /\ config # <<>> => reports[i].version = config[1].version
        /\ reports[i].version = "v1" <=> config = <<>>

\* C8, amended: a failure report holds only version, status and
\* error_message; version is the configuration's when load_config had
\* succeeded, and the fallback "v1" when it had not.
C8_FailureVersion ==
    \A i \in FailureReports :
        /\ DOMAIN reports[i] = {"version", "status", "error_message"}
        /\ reports[i].error_message = str_exc(exc[1])
        /\ config # <<>> => reports[i].version = config[1].version
        /\ config = <<>> => reports[i].version = "v1"

\* C8 witness: a failure after a configuration of version "v2" was loaded.
C8_Witness ==
    /\ FailureReports # {}
    /\ config # <<>>
    /\ config[1].version = "v2"

\* C9: in a success report the value lies in [0.0, 1.0] and is the multiple
\* of 0.0001 nearest to the mean of the signal, and rows_processed is the
\* number of rows of the input.
C9_ValueRangeAndRows ==
    SuccessfulRun =>
        LET ones == Sum(signal[1])
            n == Len(signal[1])
            v == reports[1].value
            d == v * n - 10000 * ones
        IN  /\ v \in 0..10000
            /\ n >= 1
            /\ 2 * d <= n /\ 2 * (0 - d) <= n
            /\ reports[1].rows_processed = Len(dataFile[1].table.rows)

\* C9 witness: a success report for a dataset with fewer rows than window.
C9_Witness ==
    /\ SuccessfulRun
    /\ Len(dataFile[1].table.rows) < config[1].window.n
    /\ reports[1].value = 0

\* The state of the job runner, read off the position in main.
RunnerState ==
    CASE pc \in {"parse_args", "setup_logger"} -> "NotStarted"
      [] pc = "load_config" -> "Started"
      [] pc \in {"seed", "load_data"} -> "ConfigLoaded"
      [] pc = "generate_signals" -> "DataLoaded"
      [] pc = "report" -> "SignalsComputed"
      [] pc = "except" -> "Failing"
      [] pc = "exit" -> IF ~JobStarted THEN "Exited"
                        ELSE IF exit = <<0>> THEN "Reported(success)"
                        ELSE "Reported(failure)"

ForwardPath ==
    <<"NotStarted", "Started", "ConfigLoaded", "DataLoaded", "SignalsComputed",
      "Reported(success)">>

\* One step of the runner: stay, advance by one stage, or leave any stage of
\* the job for the failure report (the exception passes through the except
\* clause); a run that never entered the job just exits.
Forward(s, t) ==
    \/ s = t
    \/ \E i \in 1..(Len(ForwardPath) - 1) : s = ForwardPath[i] /\ t = ForwardPath[i + 1]
    \/ s \in {"Started", "ConfigLoaded", "DataLoaded", "SignalsComputed"} /\ t = "Failing"
    \/ s = "Failing" /\ t = "Reported(failure)"
    \/ s = "NotStarted" /\ t = "Exited"

IsPrefix(a, b) == Len(a) <= Len(b) /\ \A i \in 1..Len(a) : a[i] = b[i]

StageCalls == <<"load_config", "np.random.seed", "load_data", "generate_signals">>

Milestones ==
    <<"Job started", "Config loaded", "Configuration verified", "Data loaded",
      "Rolling mean calculated", "Signals generated", "Metrics",
      "Job completed successfully">>

IsInfo(r) == r.level = "INFO"

InfoMessages == [i \in 1..Len(SelectSeq(log, IsInfo)) |-> SelectSeq(log, IsInfo)[i].msg]

Logged(m) == \E i \in 1..Len(log) : log[i].msg = m

Called(c) == \E i \in 1..Len(calls) : calls[i] = c

C10_StageOrder ==
    \* the stages are called in their order, each at most once
    /\ IsPrefix(calls, StageCalls)
    /\ IsPrefix(InfoMessages, Milestones)
    \* the seed is set once, after the config is validated, before data loading
    /\ seeded <= 1
    /\ seeded = 1 => config # <<>> /\ Called("np.random.seed")
    /\ Called("load_data") => seeded = 1
    /\ pc = "load_data" => seeded = 1
    \* no stage starts unless every earlier stage succeeded
    /\ Called("np.random.seed") => config # <<>>
    /\ Called("generate_signals") => df # <<>>
    /\ HasSuccessReport => signal # <<>>
    /\ signal # <<>> => df # <<>>
    /\ df # <<>> => config # <<>> /\ seeded = 1
    \* the milestones of a stage are logged only when the stage succeeded
    /\ Logged("Config loaded") => seeded = 1
    /\ Logged("Data loaded") => df # <<>>
    /\ Logged("Signals generated") => signal # <<>>
    /\ Logged("Metrics") => SuccessWritten
    /\ (dataFile # <<>> /\ ~dataFile[1].exists) => ~Logged("Data loaded")
    \* the runner states carry what their stages produced
    /\ RunnerState = "ConfigLoaded" => config # <<>>
    /\ RunnerState = "DataLoaded" => df # <<>>
    /\ RunnerState = "SignalsComputed" => signal # <<>>
    /\ RunnerState = "Reported(success)" => AllStagesSucceeded
    /\ RunnerState = "Reported(failure)" => FailureReports # {} /\ exit = <<1>>

\* C10: the runner moves only forward through Started, ConfigLoaded,
\* DataLoaded, SignalsComputed and Reported(success), or from any of them to
\* Reported(failure); the seed is set once, after the config is validated
\* and before data loading; no stage starts unless the earlier ones
\* succeeded; a failed stage and the stages after it log no milestone.
C10_ForwardOnly ==
    /\ []C10_StageOrder
    /\ [][Forward(RunnerState, RunnerState')]_vars

\* C10 witness: the input file was missing; the run failed after seeding
\* and without a "Data loaded" line.
C10_Witness ==
    /\ Finished
    /\ dataFile = <<[exists |-> FALSE]>>
    /\ seeded = 1
    /\ Logged("Configuration verified")
    /\ ~Logged("Data loaded")
    /\ RunnerState = "Reported(failure)"

====
